---- MODULE Spec2Model ----
(***************************************************************************)
(* Model of src/components/TwoslashPatch.tsx: the TwoslashPatchPortal      *)
(* component.  On every render it reads a layout snapshot from the         *)
(* useCustomStyle hook and, through a portal into document.body, renders a *)
(* <style> element whose text overrides the left offset of the twoslash    *)
(* hover tooltip.                                                          *)
(*                                                                         *)
(* Measurements are pixel counts, modelled as integers.  A value of type   *)
(* `number | undefined` is a sequence: <<>> is undefined, <<n>> is the     *)
(* number n.  Text (a rule, a rendered number) is a string.                *)
(***************************************************************************)
EXTENDS Integers, Sequences, FiniteSets, TLC

\* Largest measurement the hook reports, in pixels.
MaxPx == 2
\* Measurements go down to -MaxNeg pixels (an anchor scrolled off to the left).
MaxNeg == 1

Undefined == <<>>
Num(n) == <<n>>
Px == (0 - MaxNeg)..MaxPx
Measurement == {Undefined} \cup {Num(n) : n \in Px}

\* The six `number | undefined` fields of the hook's return value, by the
\* names the component destructures them under.
Fields ==
    {"elementStaticXPos", "elementScrrenXPos", "contentWidth",
     "allowedContentFullWidth", "elementScrrenXPosRatio", "padding"}

VARIABLES
    snapshot,   \* what useCustomStyle() returns on the current render
    output,     \* what the last call of TwoslashPatchPortal returned
    body,       \* texts of the <style> elements the portal holds in document.body
    trigger     \* what caused the last render: "init", "update" or "rerender"

vars == <<snapshot, output, body, trigger>>

----------------------------------------------------------------------------
(* JavaScript and React semantics the component relies on *)

\* JavaScript truthiness of a `number | undefined`: undefined and 0 are falsy.
Truthy(v) == v # Undefined /\ v[1] # 0

\* What React renders for a `number | undefined` child: nothing for undefined,
\* the decimal text for a number (so a falsy 0 is rendered as "0").
ReactText(v) == IF v = Undefined THEN "" ELSE ToString(v[1])

\* The template literal of the rule.
Rule(left) ==
    "pre.twoslash data-lsp:hover::before { left: " \o ToString(left) \o "px !important; }"

----------------------------------------------------------------------------
(* The component *)

\* The left offset chosen by the nested conditional expression.
LeftOffsetNoClamp(s) ==
    LET cw == s.contentWidth[1]
        allowed == s.allowedContentFullWidth[1]
        sx == s.elementScrrenXPos[1]
    IN  IF cw >= allowed THEN 0 ELSE sx

LeftOffset(s) ==
    LET cw == s.contentWidth[1]
        allowed == s.allowedContentFullWidth[1]
        sx == s.elementScrrenXPos[1]
        pad == s.padding[1]
    IN  IF cw >= allowed THEN 0
        ELSE IF sx + cw > allowed THEN allowed - cw - (pad * 2)
        ELSE sx

\* The child expression of <style>:
\*   elementScrrenXPos && padding && (rule)
\* `a && b` is a when a is falsy, else b.
StyleChildren(s) ==
    IF ~Truthy(s.elementScrrenXPos) THEN ReactText(s.elementScrrenXPos)
    ELSE IF ~Truthy(s.padding) THEN ReactText(s.padding)
    ELSE Rule(LeftOffset(s))

\* The value the component returns: the text rendered in place (the falsy
\* operand of the && chain, if it is a number) and the <style> elements handed
\* to createPortal.
TwoslashPatchPortalNoMountGuard(s) ==
    IF ~Truthy(s.elementStaticXPos)
        THEN [inline |-> ReactText(s.elementStaticXPos), portal |-> <<>>]
    ELSE IF ~Truthy(s.contentWidth)
        THEN [inline |-> ReactText(s.contentWidth), portal |-> <<>>]
    ELSE IF ~Truthy(s.allowedContentFullWidth)
        THEN [inline |-> ReactText(s.allowedContentFullWidth), portal |-> <<>>]
    ELSE IF ~Truthy(s.elementScrrenXPosRatio)
        THEN [inline |-> ReactText(s.elementScrrenXPosRatio), portal |-> <<>>]
    ELSE [inline |-> "", portal |-> <<StyleChildren(s)>>]

TwoslashPatchPortal(s) ==
    IF ~s.isMounted
        THEN [inline |-> "", portal |-> <<>>]
    ELSE IF ~Truthy(s.elementStaticXPos)
        THEN [inline |-> ReactText(s.elementStaticXPos), portal |-> <<>>]
    ELSE IF ~Truthy(s.contentWidth)
        THEN [inline |-> ReactText(s.contentWidth), portal |-> <<>>]
    ELSE IF ~Truthy(s.allowedContentFullWidth)
        THEN [inline |-> ReactText(s.allowedContentFullWidth), portal |-> <<>>]
    ELSE IF ~Truthy(s.elementScrrenXPosRatio)
        THEN [inline |-> ReactText(s.elementScrrenXPosRatio), portal |-> <<>>]
    ELSE [inline |-> "", portal |-> <<StyleChildren(s)>>]

\* createPortal(<style>..</style>, document.body): the portal's children in
\* document.body after React commits a render, given the children it held
\* before.  The same <style> element is updated in place, inserted when the
\* portal appears and removed when it disappears.
CommitAppend(prev, out) == prev \o out.portal

CommitKeepStale(prev, out) == IF out.portal = <<>> THEN prev ELSE out.portal

Commit(prev, out) == out.portal

----------------------------------------------------------------------------
(* The state machine *)

\* Before the hook has measured anything: not mounted, every field undefined.
Init ==
    /\ snapshot = [isMounted |-> FALSE,
                   elementStaticXPos |-> Undefined,
                   elementScrrenXPos |-> Undefined,
                   contentWidth |-> Undefined,
                   allowedContentFullWidth |-> Undefined,
                   elementScrrenXPosRatio |-> Undefined,
                   padding |-> Undefined]
    /\ output = TwoslashPatchPortal(snapshot)
    /\ body = Commit(<<>>, output)
    /\ trigger = "init"

\* The render pass: run the component on the snapshot s and commit its output.
Render(s, why) ==
    /\ snapshot' = s
    /\ output' = TwoslashPatchPortal(s)
    /\ body' = Commit(body, TwoslashPatchPortal(s))
    /\ trigger' = why

\* The hook flips isMounted and the component re-renders.
SetIsMounted ==
    Render([snapshot EXCEPT !.isMounted = ~snapshot.isMounted], "update")

\* The hook stores a new value in one measurement and the component re-renders.
SetMeasurement ==
    \E f \in Fields, v \in Measurement :
        /\ v # snapshot[f]
        /\ Render([snapshot EXCEPT ![f] = v], "update")

\* The component renders again with the hook's values unchanged (a parent
\* re-render, or the second render of React strict mode).
Rerender == Render(snapshot, "rerender")

Next == SetIsMounted \/ SetMeasurement \/ Rerender

Spec == Init /\ [][Next]_vars

----------------------------------------------------------------------------
(* Vocabulary of the properties *)

\* Every left offset a rule can carry within the bounds.
Offsets == (0 - 3 * (MaxPx + MaxNeg))..(3 * (MaxPx + MaxNeg))

IsRule(text) == \E left \in Offsets : text = Rule(left)

\* The rules among a sequence of <style> texts.
Rules(texts) == SelectSeq(texts, IsRule)

\* The left offsets of the rules a render emitted.
EmittedLefts(out) ==
    {left \in Offsets : \E i \in DOMAIN out.portal : out.portal[i] = Rule(left)}

AllDefined(s) == \A f \in Fields : s[f] # Undefined

\* A valid snapshot in the sense of the specification: mounted, and every
\* measurement present.
Valid(s) == s.isMounted /\ AllDefined(s)

NonNegative(s) == \A f \in Fields : s[f] = Undefined \/ s[f][1] >= 0

\* Two snapshots that differ at most in elementScrrenXPosRatio.
AgreeButRatio(s, t) ==
    /\ s.isMounted = t.isMounted
    /\ \A f \in Fields \ {"elementScrrenXPosRatio"} : s[f] = t[f]

----------------------------------------------------------------------------
(* Properties *)

\* C1: a snapshot that is not mounted, or has any of the six measurements
\* undefined, makes the render emit no rule; a rule is emitted only for a
\* mounted snapshot with all six measurements defined.
C1_NoRuleUnlessComplete ==
    ~Valid(snapshot) => Rules(output.portal) = <<>>

\* C1 case: mounted, five measurements present and non-zero, padding undefined.
C1_Witness ==
    /\ trigger = "update"
    /\ snapshot.isMounted
    /\ snapshot.padding = Undefined
    /\ \A f \in Fields \ {"padding"} : Truthy(snapshot[f])
    /\ Rules(output.portal) = <<>>

\* C2: every valid snapshot with contentWidth >= allowedContentFullWidth makes
\* the render emit the rule with left offset 0.
C2_PinToZero ==
    (Valid(snapshot)
        /\ snapshot.contentWidth[1] >= snapshot.allowedContentFullWidth[1])
    => output.portal = <<Rule(0)>>

\* C3: every valid snapshot with contentWidth < allowedContentFullWidth and
\* elementScrrenXPos + contentWidth > allowedContentFullWidth makes the render
\* emit the rule with left offset
\* allowedContentFullWidth - contentWidth - 2 * padding.
C3_Clamp ==
    (Valid(snapshot)
        /\ snapshot.contentWidth[1] < snapshot.allowedContentFullWidth[1]
        /\ snapshot.elementScrrenXPos[1] + snapshot.contentWidth[1]
              > snapshot.allowedContentFullWidth[1])
    => output.portal =
          <<Rule(snapshot.allowedContentFullWidth[1] - snapshot.contentWidth[1]
                    - 2 * snapshot.padding[1])>>

\* C4: every valid snapshot with contentWidth < allowedContentFullWidth and
\* elementScrrenXPos + contentWidth <= allowedContentFullWidth makes the render
\* emit the rule with left offset elementScrrenXPos.
C4_Natural ==
    (Valid(snapshot)
        /\ snapshot.contentWidth[1] < snapshot.allowedContentFullWidth[1]
        /\ snapshot.elementScrrenXPos[1] + snapshot.contentWidth[1]
              <= snapshot.allowedContentFullWidth[1])
    => output.portal = <<Rule(snapshot.elementScrrenXPos[1])>>

\* C5: every valid snapshot makes the render emit exactly one rule, never zero
\* and never more than one.
C5_ExactlyOneRule ==
    Valid(snapshot) => Len(Rules(output.portal)) = 1

C8_RatioOnlyPresence ==
    [][(AgreeButRatio(snapshot, snapshot')
          /\ snapshot.elementScrrenXPosRatio # Undefined
          /\ snapshot'.elementScrrenXPosRatio # Undefined)
       => Rules(output'.portal) = Rules(output.portal)]_vars

\* C9 as stated: for non-negative measurements, an emitted left offset L
\* satisfies L + contentWidth <= allowedContentFullWidth.
C9_NoOverflow ==
    NonNegative(snapshot) =>
        \A left \in EmittedLefts(output) :
            left + snapshot.contentWidth[1] <= snapshot.allowedContentFullWidth[1]

\* C9 as amended: for non-negative measurements with
\* contentWidth <= allowedContentFullWidth, an emitted left offset L satisfies
\* L + contentWidth <= allowedContentFullWidth.
C9_NoOverflowWhenContentFits ==
    NonNegative(snapshot) =>
        \A left \in EmittedLefts(output) :
            snapshot.contentWidth[1] <= snapshot.allowedContentFullWidth[1]
            => left + snapshot.contentWidth[1] <= snapshot.allowedContentFullWidth[1]

\* C9 case: the clamp branch, the natural position would overflow.
C9_Witness ==
    /\ NonNegative(snapshot)
    /\ EmittedLefts(output) # {}
    /\ snapshot.contentWidth[1] < snapshot.allowedContentFullWidth[1]
    /\ snapshot.elementScrrenXPos[1] + snapshot.contentWidth[1]
          > snapshot.allowedContentFullWidth[1]

\* C10: for non-negative measurements, an emitted left offset is non-negative.
C10_NonNegativeOffset ==
    NonNegative(snapshot) => \A left \in EmittedLefts(output) : left >= 0

====
